---- MODULE Spec2Model ----
(***************************************************************************)
(* A model of src/src/main.py: the BitArray bit writer/reader, encode_bits *)
(* and the delta/literal image codec encode_image / decode_image.          *)
(*                                                                         *)
(* Three specifications:                                                   *)
(*   SpecBits, SpecRead  a single BitArray driven by arbitrary add_bits,   *)
(*             to_bytes, reset_buffer and read_bits calls;                 *)
(*   Spec      encode_image and decode_image, one step per loop iteration, *)
(*             driven as main() drives them (encode, then decode the       *)
(*             frame or a prefix of it) or decode_image on a given buffer. *)
(* Python integers are unbounded; every value of the model stays far below *)
(* 2^31, so no width is lost.                                              *)
(***************************************************************************)
EXTENDS Integers, Sequences, FiniteSets, TLC

VARIABLES
    pc,             \* where the codec run is: idle / encode_image / ... / decoded
    args,           \* the arguments of encode_image: width, height, pixels
    enc,            \* the locals of encode_image
    encoded_image,  \* the bytes encode_image returned
    dec,            \* the locals of decode_image
    output,         \* the tuple decode_image returned
    raised,         \* the exception that ended the call, "" when none
    bit_array,      \* SpecBits: the BitArray under test (data, buffer, index)
    ctor_data,      \* SpecBits: the data the BitArray was constructed with
    written,        \* SpecBits: every bit passed to add_bits so far, in order
    stream,         \* SpecBits: "open"; "padded" once to_bytes has zero-padded a partial
                    \*   byte; "broken" once bits followed the padding or reset_buffer
                    \*   dropped pending bits
    flushes,        \* SpecBits: calls so far that emptied a partly filled buffer
    last_call       \* SpecBits: the most recent call and what it returned

vars == <<pc, args, enc, encoded_image, dec, output, raised,
          bit_array, ctor_data, written, stream, flushes, last_call>>

codec_vars == <<pc, args, enc, encoded_image, dec, output, raised>>
bits_vars == <<bit_array, ctor_data, written, stream, flushes, last_call>>

(***************************************************************************)
(* Bounds of the model                                                     *)
(***************************************************************************)
\* number of pixels of the large images (3 * NPix >= 100, so step_size >= 1)
NPix == 34
\* SpecBits: most bits appended to one BitArray, and most bits in one add_bits call
MaxBits == 9
MaxCall == 3
\* longest buffer a BitArray is constructed with, in bytes
MaxBufLen == 2
\* most calls on one BitArray that empty a partly filled buffer
\* (a padding to_bytes, or a reset_buffer that drops pending bits)
MaxFlushes == 2
\* SpecRead: most bits appended to one BitArray
MaxReadAppend == 1

(***************************************************************************)
(* Python arithmetic                                                       *)
(***************************************************************************)
\* Python's a % b for b # 0: the result has the sign of b
PyMod(a, b) == a - b * (a \div b)

Min(a, b) == IF a < b THEN a ELSE b

\* bool as an int, as << and | take it
B2I(b) == IF b THEN 1 ELSE 0

\* data[start:end] of a bytes object, for start, end >= 0 (0-based, end exclusive, clamped)
Slice(data, start, end) ==
    LET lo == Min(start, Len(data))
        hi == Min(end, Len(data))
    IN IF hi <= lo THEN <<>> ELSE SubSeq(data, lo + 1, hi)

\* int.from_bytes(s, 'big')
RECURSIVE from_bytes(_)
from_bytes(s) ==
    IF s = <<>> THEN 0
    ELSE from_bytes(SubSeq(s, 1, Len(s) - 1)) * 256 + s[Len(s)]

RECURSIVE Reverse(_)
Reverse(s) == IF s = <<>> THEN <<>> ELSE Append(Reverse(Tail(s)), Head(s))

(***************************************************************************)
(* encode_bits                                                             *)
(***************************************************************************)
\* the loop of encode_bits: the bits least significant first
RECURSIVE encode_bits_lsb(_, _)
encode_bits_lsb(value, length) ==
    IF length = 0 THEN <<>>
    ELSE <<(value % 2) = 1>> \o encode_bits_lsb(value \div 2, length - 1)

\* encode_bits without its bits.reverse()
encode_bits_lsb_first(value, length) == encode_bits_lsb(value, length)

encode_bits(value, length) == Reverse(encode_bits_lsb(value, length))

(***************************************************************************)
(* class BitArray                                                          *)
(***************************************************************************)
EmptyBuffer == [i \in 1..8 |-> FALSE]

\* BitArray(data)
BitArray(data) == [data |-> data, buffer |-> EmptyBuffer, index |-> 0]

reset_buffer(self) == [self EXCEPT !.buffer = EmptyBuffer, !.index = 0]

\* the byte with the shift amounts of pack_byte reversed
pack_byte_low_first(buffer) ==
      B2I(buffer[8]) * 128 + B2I(buffer[7]) * 64 + B2I(buffer[6]) * 32
    + B2I(buffer[5]) * 16 + B2I(buffer[4]) * 8 + B2I(buffer[3]) * 4
    + B2I(buffer[2]) * 2 + B2I(buffer[1])

\* buffer[0] << 7 | buffer[1] << 6 | ... | buffer[7]
pack_byte(buffer) ==
      B2I(buffer[1]) * 128 + B2I(buffer[2]) * 64 + B2I(buffer[3]) * 32
    + B2I(buffer[4]) * 16 + B2I(buffer[5]) * 8 + B2I(buffer[6]) * 4
    + B2I(buffer[7]) * 2 + B2I(buffer[8])

\* one iteration of the loop of add_bits
add_bit(self, bit) ==
    LET stored == [self EXCEPT !.buffer[self.index + 1] = bit,
                               !.index = self.index + 1]
    IN IF stored.index = 8
       THEN reset_buffer([stored EXCEPT !.data = Append(stored.data, pack_byte(stored.buffer))])
       ELSE stored

\* the loop of add_bits; index < 8 holds after every iteration (the test also
\* makes each iteration's result a value before the next one starts)
RECURSIVE add_bits(_, _)
add_bits(self, bits) ==
    IF bits = <<>> THEN self
    ELSE LET stored == add_bit(self, Head(bits))
         IN IF stored.index < 8 THEN add_bits(stored, Tail(bits)) ELSE stored

\* the BitArray after to_bytes; the call returns its data
to_bytes(self) ==
    IF self.index > 0
    THEN reset_buffer([self EXCEPT !.data = Append(self.data, pack_byte(self.buffer))])
    ELSE self

\* read_bits without its value >> shift
read_bits_no_shift(self, index, length) ==
    from_bytes(Slice(self.data, index \div 8, (index + length + 7) \div 8)) % (2 ^ length)

\* read_bits, for index >= 0; it assigns to nothing
read_bits(self, index, length) ==
    LET start_index == index \div 8
        end_index == (index + length + 7) \div 8
        shift == PyMod(8 - (index + length), 8)
        value == from_bytes(Slice(self.data, start_index, end_index))
    IN (value \div (2 ^ shift)) % (2 ^ length)

(***************************************************************************)
(* The bits of a byte buffer, read off directly                            *)
(***************************************************************************)
\* bit i of the buffer, bit 0 being the most significant bit of byte 0
BitAt(data, i) == (data[(i \div 8) + 1] \div (2 ^ (7 - (i % 8)))) % 2

\* the unsigned integer spelled by bits off .. off+len-1, most significant first
RECURSIVE BitsToNat(_, _, _)
BitsToNat(data, off, len) ==
    IF len = 0 THEN 0
    ELSE 2 * BitsToNat(data, off, len - 1) + BitAt(data, off + len - 1)

CeilDiv8(n) == (n + 7) \div 8

(***************************************************************************)
(* Module constants of main.py                                             *)
(***************************************************************************)
BITS_FOR_DIFF == 4
DIFF_VAL == BITS_FOR_DIFF - 1
DIFF_MOD == 2 ^ DIFF_VAL
\* MAX_DIFF without its - 1
MAX_DIFF_off_by_one == DIFF_MOD
MAX_DIFF == DIFF_MOD - 1
MIN_DIFF == -DIFF_MOD

(***************************************************************************)
(* The inputs of the model                                                 *)
(***************************************************************************)
\* channel values inside 0..255; their pairwise differences cover
\* -255, -16, -9, -8, -7, -2, 0, 2, 7, 8, 9, 16, 255
GoodVals == {0, 2, 9, 10, 18, 255}
\* channel values outside 0..255
BadVals == {-1, 256, 300}

\* n pixels: red alternates a, b; green alternates b, a; blue is a at every third pixel, else b
Pattern(a, b, n) ==
    [k \in 1..n |-> << IF k % 2 = 1 THEN a ELSE b,
                       IF k % 2 = 1 THEN b ELSE a,
                       IF k % 3 = 1 THEN a ELSE b >>]

Image(w, h, pixels) == [width |-> w, height |-> h, pixels |-> pixels]

\* width and height fit 16 unsigned bits and there are width * height pixels
ValidDimensions(img) ==
    /\ img.width \in 0..65535
    /\ img.height \in 0..65535
    /\ Len(img.pixels) = img.width * img.height

ValidSamples(img) ==
    \A k \in 1..Len(img.pixels) : \A c \in 1..3 : img.pixels[k][c] \in 0..255

ValidImage(img) == ValidDimensions(img) /\ ValidSamples(img)

GoodDims == { <<0, 0>>, <<65535, 0>>, <<0, 65535>>, <<768, 0>>, <<0, 512>>,
              <<1, 1>>, <<2, 1>>, <<1, 2>>, <<NPix, 1>>, <<1, NPix>> }

GoodImages ==
    { Image(d[1], d[2], Pattern(a, b, d[1] * d[2])) : d \in GoodDims, a \in GoodVals, b \in GoodVals }

\* a sample outside 0..255, on the delta path (256 after 255, -1 after 0) or the literal path
BadSampleImages ==
    { Image(NPix, 1, Pattern(a, b, NPix)) : a \in BadVals, b \in GoodVals \cup BadVals }
    \cup
    { Image(NPix, 1, Pattern(a, b, NPix)) : a \in {0, 255}, b \in BadVals }

\* a width or height outside 0..65535, or a pixel count that is not width * height
BadDimImages ==
    { Image(65536 + NPix, 1, Pattern(a, 2, NPix)) : a \in {0, 10} }
    \cup { Image(1, NPix - 65536, Pattern(a, 2, NPix)) : a \in {0, 10} }
    \cup { Image(NPix, 1, Pattern(a, 2, NPix + 1)) : a \in {0, 10} }
    \cup { Image(NPix, 1, <<>>) }

Images == GoodImages \cup BadSampleImages \cup BadDimImages

\* byte buffers that encode_image did not produce: a header declaring w x h, then the given bits
Buffer(w, h, bits) ==
    to_bytes(add_bits(BitArray(<<>>), encode_bits(w, 16) \o encode_bits(h, 16) \o bits)).data

GivenBuffers ==
    { <<>>, <<0, 1, 0>>,
      Buffer(2, 1, <<>>),                       \* only the header, 2 x 1
      Buffer(NPix, 1, <<>>),                    \* only the header, NPix x 1
      Buffer(NPix, 1, <<TRUE, TRUE, FALSE, FALSE, FALSE>>),   \* delta -8 from predictor 0
      Buffer(NPix, 1, <<FALSE>> \o encode_bits(255, 8) \o <<TRUE, FALSE, TRUE, TRUE, TRUE>>) }  \* 255, then +7

\* the frame, the frame less its last byte, and its 4-byte header alone
Cuts(frame) ==
    { frame, SubSeq(frame, 1, Len(frame) - 1), SubSeq(frame, 1, Min(4, Len(frame))) }

(***************************************************************************)
(* encode_image                                                            *)
(***************************************************************************)
NoArgs == Image(0, 0, <<>>)

NoEnc == [encoded_bits |-> BitArray(<<>>), red |-> <<>>, green |-> <<>>, blue |-> <<>>,
          total_encoding |-> 0, step_size |-> 0, step |-> 0, encoding_index |-> 0,
          channel |-> 1, i |-> 0, current_value |-> 0]

NoDec == [bits |-> BitArray(<<>>), width |-> 0, height |-> 0, pixel_count |-> 0, index |-> 0,
          red |-> <<>>, green |-> <<>>, blue |-> <<>>,
          total_decoding |-> 0, step_size |-> 0, step |-> 0, decoding_index |-> 0,
          channel |-> 1, pixel_index |-> 0, value |-> 0]

\* the list [red, green, blue] the loops run over
EncChannels(e) == <<e.red, e.green, e.blue>>

\* the bits encode_image appends for val when the running value is current_value
sample_bits(encoded_bits, val, current_value) ==
    LET delta == val - current_value
    IN IF delta < MIN_DIFF \/ delta > MAX_DIFF
       THEN add_bits(add_bits(encoded_bits, <<FALSE>>), encode_bits(val, 8))
       ELSE add_bits(add_bits(add_bits(encoded_bits, <<TRUE>>), <<delta < 0>>),
                     encode_bits(PyMod(delta, DIFF_MOD), DIFF_VAL))

\* encode_image up to its channel loop: the header, the split, the progress counters
EncodeStart ==
    /\ pc = "idle"
    /\ \E img \in Images :
        LET n == Len(img.pixels)
            header == add_bits(add_bits(BitArray(<<>>), encode_bits(img.width, 16)),
                               encode_bits(img.height, 16))
            total == 3 * img.width * img.height
        IN /\ args' = img
           /\ enc' = [encoded_bits |-> header,
                      red |-> [k \in 1..n |-> img.pixels[k][1]],
                      green |-> [k \in 1..n |-> img.pixels[k][2]],
                      blue |-> [k \in 1..n |-> img.pixels[k][3]],
                      total_encoding |-> total,
                      step_size |-> total \div 100,
                      step |-> 0,
                      encoding_index |-> 0,
                      channel |-> IF n = 0 THEN 4 ELSE 1,
                      i |-> 0,
                      current_value |-> 0]
    /\ pc' = "encode_image"
    /\ UNCHANGED <<encoded_image, dec, output, raised>>
    /\ UNCHANGED bits_vars

\* one iteration of the inner loop of encode_image
EncodeSample ==
    /\ pc = "encode_image"
    /\ enc.channel <= 3
    /\ LET channel == EncChannels(enc)[enc.channel]
           val == channel[enc.i + 1]
           appended == sample_bits(enc.encoded_bits, val, enc.current_value)
           encoding_index == enc.encoding_index + 1
           last == (enc.i + 1 = Len(channel))
           stepped == [enc EXCEPT !.encoded_bits = appended,
                                  !.current_value = val,
                                  !.encoding_index = encoding_index]
       IN IF enc.step_size = 0
          THEN \* encoding_index % step_size raises
               /\ enc' = stepped
               /\ pc' = "encode_raised"
               /\ raised' = "ZeroDivisionError"
          ELSE /\ enc' = [stepped EXCEPT
                            !.step = IF PyMod(encoding_index, enc.step_size) = 0 THEN @ + 1 ELSE @,
                            !.i = IF last THEN 0 ELSE @ + 1,
                            !.channel = IF last THEN @ + 1 ELSE @,
                            \* current_value = 0 opens the next channel, when there is one
                            !.current_value = IF last /\ enc.channel < 3 THEN 0 ELSE val]
               /\ UNCHANGED <<pc, raised>>
    /\ UNCHANGED <<args, encoded_image, dec, output>>
    /\ UNCHANGED bits_vars

\* return encoded_bits.to_bytes()
EncodeReturn ==
    /\ pc = "encode_image"
    /\ enc.channel = 4
    /\ enc' = [enc EXCEPT !.encoded_bits = to_bytes(enc.encoded_bits)]
    /\ encoded_image' = to_bytes(enc.encoded_bits).data
    /\ pc' = "encoded"
    /\ UNCHANGED <<args, dec, output, raised>>
    /\ UNCHANGED bits_vars

(***************************************************************************)
(* decode_image                                                            *)
(***************************************************************************)
DecChannels(d) == <<d.red, d.green, d.blue>>

\* list(zip(red, green, blue))
Zip(red, green, blue) ==
    [k \in 1..Min(Len(red), Min(Len(green), Len(blue))) |-> <<red[k], green[k], blue[k]>>]

\* one sample read through get_next_bits: the new running value and the new index
decode_sample(bits, index, value) ==
    LET use_difference == read_bits(bits, index, 1) # 0
        negative == read_bits(bits, index + 1, 1) # 0
        magnitude == read_bits(bits, index + 2, DIFF_VAL)
        difference == IF negative THEN magnitude - DIFF_MOD ELSE magnitude
    IN IF use_difference
       THEN [value |-> value + difference, index |-> index + 2 + DIFF_VAL]
       ELSE [value |-> read_bits(bits, index + 1, 8), index |-> index + 9]

\* decode_image up to its channel loop; main() hands it the frame encode_image
\* returned (here also a prefix of it), other callers any buffer
DecodeStart ==
    /\ pc \in {"idle", "encoded"}
    /\ \E data \in (IF pc = "encoded" THEN Cuts(encoded_image) ELSE GivenBuffers) :
        LET bits == BitArray(data)
            width == read_bits(bits, 0, 16)
            height == read_bits(bits, 16, 16)
            total == 3 * width * height
        IN dec' = [bits |-> bits, width |-> width, height |-> height,
                   pixel_count |-> width * height, index |-> 32,
                   red |-> <<>>, green |-> <<>>, blue |-> <<>>,
                   total_decoding |-> total, step_size |-> total \div 100,
                   step |-> 0, decoding_index |-> 0,
                   channel |-> IF width * height = 0 THEN 4 ELSE 1,
                   pixel_index |-> 0, value |-> 0]
    /\ pc' = "decode_image"
    /\ UNCHANGED <<args, enc, encoded_image, output, raised>>
    /\ UNCHANGED bits_vars

\* one iteration of the inner loop of decode_image
DecodeSample ==
    /\ pc = "decode_image"
    /\ dec.channel <= 3
    /\ LET got == decode_sample(dec.bits, dec.index, dec.value)
           decoding_index == dec.decoding_index + 1
           last == (dec.pixel_index + 1 = dec.pixel_count)
           stepped == [dec EXCEPT !.index = got.index,
                                  !.value = got.value,
                                  !.red = IF dec.channel = 1 THEN Append(@, got.value) ELSE @,
                                  !.green = IF dec.channel = 2 THEN Append(@, got.value) ELSE @,
                                  !.blue = IF dec.channel = 3 THEN Append(@, got.value) ELSE @,
                                  !.decoding_index = decoding_index]
       IN IF dec.step_size = 0
          THEN \* decoding_index % step_size raises
               /\ dec' = stepped
               /\ pc' = "decode_raised"
               /\ raised' = "ZeroDivisionError"
          ELSE /\ dec' = [stepped EXCEPT
                            !.step = IF PyMod(decoding_index, dec.step_size) = 0 THEN @ + 1 ELSE @,
                            \* value = 0 and the first pixel_index open the next
                            \* channel, when there is one
                            !.pixel_index = IF ~last THEN @ + 1
                                            ELSE IF dec.channel < 3 THEN 0 ELSE @,
                            !.channel = IF last THEN @ + 1 ELSE @,
                            !.value = IF last /\ dec.channel < 3 THEN 0 ELSE got.value]
               /\ UNCHANGED <<pc, raised>>
    /\ UNCHANGED <<args, enc, encoded_image, output>>
    /\ UNCHANGED bits_vars

\* return width, height, list(zip(red, green, blue))
DecodeReturn ==
    /\ pc = "decode_image"
    /\ dec.channel = 4
    /\ output' = [width |-> dec.width, height |-> dec.height,
                  pixels |-> Zip(dec.red, dec.green, dec.blue)]
    /\ pc' = "decoded"
    /\ UNCHANGED <<args, enc, encoded_image, dec, raised>>
    /\ UNCHANGED bits_vars

(***************************************************************************)
(* The codec specification                                                 *)
(***************************************************************************)
NoOutput == [width |-> 0, height |-> 0, pixels |-> <<>>]

CodecIdle ==
    /\ pc = "idle"
    /\ args = NoArgs
    /\ enc = NoEnc
    /\ encoded_image = <<>>
    /\ dec = NoDec
    /\ output = NoOutput
    /\ raised = ""

BitsIdle ==
    /\ bit_array = BitArray(<<>>)
    /\ ctor_data = <<>>
    /\ written = <<>>
    /\ stream = "open"
    /\ flushes = 0
    /\ last_call = [op |-> "BitArray"]

Init == CodecIdle /\ BitsIdle

Next == EncodeStart \/ EncodeSample \/ EncodeReturn
        \/ DecodeStart \/ DecodeSample \/ DecodeReturn

Spec == Init /\ [][Next]_vars

(***************************************************************************)
(* The BitArray specifications                                             *)
(*                                                                         *)
(* One BitArray, constructed over any buffer, then driven by any sequence  *)
(* of its four public methods.  SpecBits and SpecRead have the same        *)
(* methods and differ only in the sets the arguments are drawn from:       *)
(* SpecBits appends every bit list and reads at a few places, SpecRead     *)
(* reads at every place and appends a few bit lists.                       *)
(***************************************************************************)
\* AB CD AB ... of every length up to MaxBufLen
Buffers == { [k \in 1..n |-> IF k % 2 = 1 THEN 171 ELSE 205] : n \in 0..MaxBufLen }

\* BitArray(data); BitArray() is BitArray(<<>>)
NewBitArray(buffers) ==
    /\ CodecIdle
    /\ ctor_data \in buffers
    /\ bit_array = BitArray(ctor_data)
    /\ written = <<>>
    /\ stream = "open"
    /\ flushes = 0
    /\ last_call = [op |-> "BitArray"]

\* bit_array.add_bits(bits), at most max bits appended in all
CallAddBits(bit_lists, max) ==
    /\ \E bits \in bit_lists :
        /\ Len(written) + Len(bits) <= max
        /\ bit_array' = add_bits(bit_array, bits)
        /\ written' = written \o bits
        /\ stream' = IF stream = "padded" /\ bits # <<>> THEN "broken" ELSE stream
    /\ last_call' = [op |-> "add_bits"]
    /\ UNCHANGED <<ctor_data, flushes>>
    /\ UNCHANGED codec_vars

\* bit_array.read_bits(index, length)
CallReadBits(indexes, lengths) ==
    /\ \E index \in indexes : \E length \in lengths :
        last_call' = [op |-> "read_bits", index |-> index, length |-> length,
                      value |-> read_bits(bit_array, index, length)]
    /\ UNCHANGED <<bit_array, ctor_data, written, stream, flushes>>
    /\ UNCHANGED codec_vars

\* bit_array.to_bytes()
ToBytes ==
    /\ bit_array.index > 0 => flushes < MaxFlushes
    /\ bit_array' = to_bytes(bit_array)
    /\ last_call' = [op |-> "to_bytes", value |-> to_bytes(bit_array).data]
    /\ stream' = IF bit_array.index > 0 /\ stream = "open" THEN "padded" ELSE stream
    /\ flushes' = IF bit_array.index > 0 THEN flushes + 1 ELSE flushes
    /\ UNCHANGED <<ctor_data, written>>
    /\ UNCHANGED codec_vars

\* bit_array.reset_buffer()
ResetBuffer ==
    /\ bit_array.index > 0 => flushes < MaxFlushes
    /\ bit_array' = reset_buffer(bit_array)
    /\ last_call' = [op |-> "reset_buffer"]
    /\ stream' = IF bit_array.index > 0 THEN "broken" ELSE stream
    /\ flushes' = IF bit_array.index > 0 THEN flushes + 1 ELSE flushes
    /\ UNCHANGED <<ctor_data, written>>
    /\ UNCHANGED codec_vars

\* BitArray() and BitArray(b'\xab')
InitBits == NewBitArray({<<>>, <<171>>})

AddBits == CallAddBits(UNION { [1..n -> BOOLEAN] : n \in 0..MaxCall }, MaxBits)

\* a read of one byte from the middle of the first byte
ReadBits == CallReadBits({4}, {8})

NextBits == AddBits \/ ToBytes \/ ResetBuffer \/ ReadBits

SpecBits == InitBits /\ [][NextBits]_vars

InitRead == NewBitArray(Buffers)

AddBitsRead == CallAddBits({<<TRUE>>}, MaxReadAppend)

ReadBitsRead == CallReadBits(0..(8 * Len(bit_array.data)), 1..16)

NextRead == AddBitsRead \/ ToBytes \/ ResetBuffer \/ ReadBitsRead

SpecRead == InitRead /\ [][NextRead]_vars

(***************************************************************************)
(* What the claims speak of, stated without the code's operators           *)
(***************************************************************************)
\* x in n bits, most significant first
BitsMsbFirst(x, n) == [k \in 1..n |-> ((x \div (2 ^ (n - k))) % 2) = 1]

\* the per-sample code for value v after predictor p: 5-bit delta code when
\* -8 <= v - p <= 7, else 9-bit literal code
IsDeltaCoded(v, p) == (v - p >= -8) /\ (v - p <= 7)

ExpectedCode(v, p) ==
    IF IsDeltaCoded(v, p)
    THEN <<TRUE, v - p < 0>> \o BitsMsbFirst((v - p) % 8, 3)
    ELSE <<FALSE>> \o BitsMsbFirst(v, 8)

\* every bit a BitArray holds: those of data, then the index pending ones of buffer
AllBits(b) ==
    [k \in 1..(8 * Len(b.data) + b.index) |->
        IF k <= 8 * Len(b.data) THEN BitAt(b.data, k - 1) = 1 ELSE b.buffer[k - 8 * Len(b.data)]]

\* the samples of an image in frame order: all red, then all green, then all blue
FrameSamples(img) ==
    LET n == Len(img.pixels)
    IN [j \in 1..(3 * n) |-> img.pixels[((j - 1) % n) + 1][((j - 1) \div n) + 1]]

\* the predictor of sample j: 0 at the start of a channel, else the sample before
FramePredictor(img, j) ==
    IF (j - 1) % Len(img.pixels) = 0 THEN 0 ELSE FrameSamples(img)[j - 1]

\* decode_image is running on, or has returned from, the very bytes encode_image returned
OwnFrame == encoded_image # <<>> /\ dec.bits.data = encoded_image

InDecode == pc \in {"decode_image", "decode_raised", "decoded"}

(***************************************************************************)
(* Claims                                                                  *)
(***************************************************************************)

\* C1: round trip. For every valid image encode_image returns a frame, and
\* decode_image of that frame returns the same width, height and pixels.
C1_RoundTrip ==
    ValidImage(args) =>
        /\ pc # "encode_raised"
        /\ OwnFrame => pc # "decode_raised"
        /\ (OwnFrame /\ pc = "decoded") => output = args

\* C2: truncation. Once a sample read of decode_image has gone past the end of
\* the buffer, decode_image has failed with a TruncatedBuffer error; it is not
\* still decoding and has not returned an image.
C2_TruncationFails ==
    (InDecode /\ dec.decoding_index > 0 /\ dec.index > 8 * Len(dec.bits.data)) =>
        (pc = "decode_raised" /\ raised = "TruncatedBuffer")

\* C3: InvalidDimension. When width or height is outside 0..65535 or the pixel
\* count is not width * height, encode_image ends by raising InvalidDimension
\* and returns no frame.
C3_InvalidDimension ==
    (~ValidDimensions(args) /\ pc \notin {"idle", "encode_image"}) =>
        (pc = "encode_raised" /\ raised = "InvalidDimension")

\* C4: OutOfRangeSample. When some channel value is outside 0..255,
\* encode_image ends by raising OutOfRangeSample and returns no frame.
C4_OutOfRangeSample ==
    (~ValidSamples(args) /\ pc \notin {"idle", "encode_image"}) =>
        (pc = "encode_raised" /\ raised = "OutOfRangeSample")

\* C5: progress reporting is a side channel. For a valid image of any size
\* neither encode_image nor decode_image of its frame is ended by an exception.
C5_ProgressIsSideChannel ==
    ValidImage(args) =>
        /\ ~(pc = "encode_raised")
        /\ ~(pc = "decode_raised" /\ OwnFrame)

\* C6: frame layout. The bytes encode_image returns for a valid image are:
\* width in bits [0,16), height in bits [16,32), then the codes of the red,
\* green and blue samples back to back, then 0..7 zero bits up to a byte
\* boundary; their number is ceil((32 + 5*D + 9*L) / 8); and read_bits gives
\* back width and height from the first 32 bits.
C6_FrameLayout ==
    (pc = "encoded" /\ ValidImage(args)) =>
        LET S == FrameSamples(args)
            m == Len(S)
            isDelta == [j \in 1..m |-> IsDeltaCoded(S[j], FramePredictor(args, j))]
            D(j) == Cardinality({k \in 1..(j - 1) : isDelta[k]})
            off == [j \in 1..(m + 1) |-> 32 + 5 * D(j) + 9 * ((j - 1) - D(j))]
            total == off[m + 1]
            frame == encoded_image
            code(j) == [k \in 1..(off[j + 1] - off[j]) |-> BitAt(frame, off[j] + k - 1) = 1]
        IN /\ Len(frame) = CeilDiv8(total)
           /\ 8 * Len(frame) - total \in 0..7
           /\ BitsToNat(frame, 0, 16) = args.width
           /\ BitsToNat(frame, 16, 16) = args.height
           /\ \A j \in 1..m : code(j) = ExpectedCode(S[j], FramePredictor(args, j))
           /\ \A i \in total..(8 * Len(frame) - 1) : BitAt(frame, i) = 0
           /\ read_bits(BitArray(frame), 0, 16) = args.width
           /\ read_bits(BitArray(frame), 16, 16) = args.height

\* C6 witness: a frame was returned for a valid NPix-pixel image with both
\* delta-coded and literal-coded samples (red runs 10, 2, 10, ...).
C6_Witness ==
    /\ pc = "encoded"
    /\ ValidImage(args)
    /\ Len(args.pixels) = NPix
    /\ args.pixels[1][1] = 10
    /\ args.pixels[2][1] = 2

\* C7: delta/literal selection. Each step of the encoder's sample loop, on a
\* valid image, appends exactly the code of the sample against the value before
\* it in the channel (0 at the channel's start): the 5-bit delta code when
\* -8 <= delta <= 7, else the 9-bit literal code; and decoding the appended
\* code with that predictor gives the sample back.
C7_DeltaLiteralSelection ==
    [][ (pc = "encode_image" /\ enc.channel <= 3 /\ ValidImage(args)) =>
            LET channel == EncChannels(enc)[enc.channel]
                v == channel[enc.i + 1]
                p == IF enc.i = 0 THEN 0 ELSE channel[enc.i]
                before == AllBits(enc.encoded_bits)
                after == AllBits(enc'.encoded_bits)
                got == decode_sample(BitArray(to_bytes(enc'.encoded_bits).data), Len(before), p)
            IN /\ after = before \o ExpectedCode(v, p)
               /\ got.value = v
               /\ got.index = Len(after) ]_vars

\* C7 witness: the encoder has just coded, in one channel of a valid image, a
\* sample 8 below its predecessor and then one 8 above (10, 2, 10).
C7_Witness ==
    /\ pc = "encode_image"
    /\ ValidImage(args)
    /\ enc.channel = 1
    /\ enc.i >= 3
    /\ enc.red[enc.i - 1] - enc.red[enc.i - 2] = -8
    /\ enc.red[enc.i] - enc.red[enc.i - 1] = 8

\* C8: read_bits. Whatever calls came before, a read_bits call of 1..16 bits
\* that ends inside the bytes the BitArray holds returns the integer spelled by
\* bits index .. index+length-1 of those bytes, most significant first, and
\* leaves the data, the pending buffer and its cursor as they were.
C8_ReadBits ==
    [][ (last_call'.op = "read_bits") =>
           /\ bit_array' = bit_array
           /\ (last_call'.index + last_call'.length <= 8 * Len(bit_array.data)) =>
                 last_call'.value
                    = BitsToNat(bit_array.data, last_call'.index, last_call'.length) ]_vars

\* C8 witness: read_bits(4, 8) on 0xAB 0xCD returned 0xBC.
C8_Witness ==
    /\ bit_array = BitArray(<<171, 205>>)
    /\ last_call = [op |-> "read_bits", index |-> 4, length |-> 8, value |-> 188]

\* C9: packing. On a BitArray constructed empty, after add_bits calls only (no
\* reset_buffer that dropped bits, no bits appended after a padding to_bytes),
\* to_bytes returns ceil(n/8) bytes whose bit i is the i-th appended bit and
\* whose remaining low-order bits are zero.
C9_Packing ==
    (last_call.op = "to_bytes" /\ ctor_data = <<>> /\ stream # "broken") =>
        LET n == Len(written)
            r == last_call.value
        IN /\ Len(r) = CeilDiv8(n)
           /\ \A i \in 0..(n - 1) : BitAt(r, i) = B2I(written[i + 1])
           /\ \A i \in n..(8 * Len(r) - 1) : BitAt(r, i) = 0

\* C9 witness: bits 1,0,1,1,0,1,0,0 were appended to an empty BitArray and
\* to_bytes returned the single byte 0b10110100.
C9_Witness ==
    /\ ctor_data = <<>>
    /\ stream = "open"
    /\ written = <<TRUE, FALSE, TRUE, TRUE, FALSE, TRUE, FALSE, FALSE>>
    /\ last_call = [op |-> "to_bytes", value |-> <<180>>]

\* C10: predictor range. In every state of decode_image, whatever the buffer,
\* the running value is in 0..255 and is 0 at the start of each channel, and so
\* is every decoded component.
C10_PredictorRange ==
    InDecode =>
        /\ dec.value \in 0..255
        /\ (pc = "decode_image" /\ dec.channel <= 3 /\ dec.pixel_index = 0) => dec.value = 0
        /\ \A c \in 1..3 : \A k \in 1..Len(DecChannels(dec)[c]) : DecChannels(dec)[c][k] \in 0..255

====
